---- MODULE Spec2Model ----
(***************************************************************************)
(* A model of qlib.c (Matt Bishop's robust "queue of integers" library):   *)
(* the table queues[] of MAXQ optional queues, the ticket codec            *)
(* (qtktref / readref), the generation counter noncectr, the error buffer  *)
(* qe_errbuf and the five public operations.                               *)
(*                                                                         *)
(* C integers keep their width: QTICKET and noncectr are 32-bit unsigned   *)
(* (arithmetic modulo 2^32), int results are 32-bit signed.                *)
(***************************************************************************)
EXTENDS Integers, Sequences, FiniteSets, TLC

(* ------------------------------------------------------------------ *)
(* Sizes.  The library is built with MAXQ = MAXELT = 1024; the model   *)
(* keeps the code's comparisons against MAXQ and MAXELT and runs them  *)
(* on a small table.                                                   *)
(* ------------------------------------------------------------------ *)
MAXQ == 2
MAXELT == 2
\* how many create_queue calls of one run may reach ticket generation, and how
\* many put_on_queue calls of a run with a single queue may append an element
MaxMint == 3
MaxPut == 3

(* program constants *)
IOFFSET == 4641
NOFFSET == 1282
EMPTY == -1

QE_NONE == 0
QE_BADPARAM == -1
QE_BADTICKET == -3
QE_EMPTY == -4
QE_FULL == -5
QE_NOROOM == -6
QE_TOOMANYQS == -7
QE_INTINCON == -8
QE_TOOFULL == -9

(* ------------------------------------------------------------------ *)
(* C integers.  A 32-bit unsigned value (QTICKET, noncectr, the         *)
(* unsigned locals of qtktref and readref) is the pair <<h, l>> of its   *)
(* high and low 16 bits; an int is written as the integer it denotes.    *)
(* ------------------------------------------------------------------ *)
U16 == 2 ^ 16

\* conversion of an int to unsigned int
ToU32(x) == <<(x \div U16) % U16, x % U16>>

\* conversion of an unsigned int to int (two's complement)
ToI32(w) == (IF w[1] >= U16 \div 2 THEN w[1] - U16 ELSE w[1]) * U16 + w[2]

\* unsigned a + b, a - b (modulo 2^32)
U32Add(a, b) ==
    LET s == a[2] + b[2] IN <<(a[1] + b[1] + (s \div U16)) % U16, s % U16>>

U32Sub(a, b) ==
    LET d == a[2] - b[2] IN <<(a[1] - b[1] + (d \div U16)) % U16, d % U16>>

\* unsigned a > b, a >= b
U32Gt(a, b) == a[1] > b[1] \/ (a[1] = b[1] /\ a[2] > b[2])

U32Ge(a, b) == a = b \/ U32Gt(a, b)

\* a & b, a | b on 16-bit operands
RECURSIVE BitAnd(_, _)
BitAnd(a, b) ==
    IF a = 0 \/ b = 0 THEN 0
    ELSE (a % 2) * (b % 2) + 2 * BitAnd(a \div 2, b \div 2)

RECURSIVE BitOr(_, _)
BitOr(a, b) ==
    IF a = 0 THEN b
    ELSE IF b = 0 THEN a
    ELSE (IF a % 2 = 1 \/ b % 2 = 1 THEN 1 ELSE 0) + 2 * BitOr(a \div 2, b \div 2)

\* unsigned a & b, a | b, a << 16, a >> 16
U32And(a, b) == <<BitAnd(a[1], b[1]), BitAnd(a[2], b[2])>>

\* a & 0x7fff and a & 0xffff: the mask keeps the low 15 (16) bits
And7fff(a) == <<0, a[2] % (U16 \div 2)>>

Andffff(a) == <<0, a[2]>>

U32Or(a, b) == <<BitOr(a[1], b[1]), BitOr(a[2], b[2])>>

Shl16(a) == <<a[2], 0>>

Shr16(a) == <<0, a[1]>>

\* the macro QE_ISERROR, on an int
QE_ISERROR(x) == x < 0

(* ------------------------------------------------------------------ *)
(* Data                                                                *)
(* ------------------------------------------------------------------ *)
Slots == 0 .. (MAXQ - 1)
Cells == 0 .. (MAXELT - 1)

\* the values the callers enqueue (QELT is int)
Values == {11, -4}

\* queues[i] == NULL: no queue allocated at index i
NULL == [null |-> TRUE]

\* the error messages, by their format strings (the numbers that sprintf
\* fills in are left out)
MsgNoError == "no error"
MsgIndexMaxq == "qtktref: index %u too large (assumed less than %d)"
MsgIndexBits == "qtktref: index %u too large (assumed less than %u)"
MsgGeneration == "qtktref: generation number too large (max %u)"
MsgRefIndex == "readref: index %u exceeds %d"
MsgRefUnused == "readref: ticket refers to unused queue index %u"
MsgRefOld == "readref: ticket refers to old queue (new=%u, old=%u)"
MsgRefHeadCount == "readref: internal inconsistency: head=%u,count=%u"
MsgRefNonce == "readref: internal inconsistency: nonce=0"
MsgTooMany == "create_queue: too many queues (max %d)"
MsgNoMemory == "create_queue: malloc: no more memory"
MsgQueueFull == "put_on_queue: queue full (max %d elts)"
MsgQueueEmpty == "take_off_queue: queue empty"

\* what malloc(sizeof(QUEUE)) returns: no field holds a determinate value.
\* written[c] tells whether que[c] has been assigned since the allocation.
Malloc ==
    [ticket |-> <<0, 0>>, que |-> [c \in Cells |-> 0],
     written |-> [c \in Cells |-> FALSE], head |-> 0, count |-> 0]

VARIABLES
    queues,      \* queues[MAXQ]: NULL or the QUEUE structure
    noncectr,    \* the nonce generator
    qe_errbuf,   \* the error message buffer
    last,        \* the most recent call: the operation, the ticket presented, the
                 \* 32 bits returned read as an int, whether it left by an error
                 \* return, whether it wrote qe_errbuf
    out,         \* what the most recent call printed (list_queue)
    stale,       \* the tickets for which delete_queue has succeeded
    fifo,        \* per slot: the puts and takes since the queue was created
    aseq,        \* per slot: the sequence of integers that the queue stands for
    retry,       \* "freed": a delete_queue emptied a slot of a full table and no
                 \* create_queue was called since; "ok", "failed": how the first
                 \* create_queue call after that ended; "none" otherwise
    mintsLeft,   \* create_queue calls that may still reach qtktref in this run
    putsLeft     \* put_on_queue calls that may still append an element in this run

vars ==
    <<queues, noncectr, qe_errbuf, last, out, stale, fifo, aseq, retry, mintsLeft,
      putsLeft>>

(* ------------------------------------------------------------------ *)
(* The ticket codec                                                    *)
(* ------------------------------------------------------------------ *)

\* Pack with & written for |
Pack_And(high, low) == U32And(Shl16(high), low)

\* (QTICKET) ((high << 16) | low)
Pack(high, low) == U32Or(Shl16(high), low)

\* qtktref without the test low == 0
qtktref_NoZeroTest(index, ctr) ==
    IF U32Gt(index, ToU32(MAXQ))
    THEN [ret |-> ToU32(QE_INTINCON), ctr |-> ctr, msg |-> MsgIndexMaxq]
    ELSE LET high == And7fff(U32Add(index, ToU32(IOFFSET)))
         IN  IF high # U32Add(index, ToU32(IOFFSET))
             THEN [ret |-> ToU32(QE_INTINCON), ctr |-> ctr, msg |-> MsgIndexBits]
             ELSE LET low == Andffff(U32Add(ctr, ToU32(NOFFSET)))
                  IN  IF low # U32Add(ctr, ToU32(NOFFSET))
                      THEN [ret |-> ToU32(QE_INTINCON),
                            ctr |-> U32Add(ctr, ToU32(1)), msg |-> MsgGeneration]
                      ELSE [ret |-> Pack(high, low),
                            ctr |-> U32Add(ctr, ToU32(1)), msg |-> MsgNoError]

\* qtktref that masks the nonce with 0x7fff
qtktref_NarrowNonce(index, ctr) ==
    IF U32Gt(index, ToU32(MAXQ))
    THEN [ret |-> ToU32(QE_INTINCON), ctr |-> ctr, msg |-> MsgIndexMaxq]
    ELSE LET high == And7fff(U32Add(index, ToU32(IOFFSET)))
         IN  IF high # U32Add(index, ToU32(IOFFSET))
             THEN [ret |-> ToU32(QE_INTINCON), ctr |-> ctr, msg |-> MsgIndexBits]
             ELSE LET low == And7fff(U32Add(ctr, ToU32(NOFFSET)))
                  IN  IF low # U32Add(ctr, ToU32(NOFFSET)) \/ low = ToU32(0)
                      THEN [ret |-> ToU32(QE_INTINCON),
                            ctr |-> U32Add(ctr, ToU32(1)), msg |-> MsgGeneration]
                      ELSE [ret |-> Pack(high, low),
                            ctr |-> U32Add(ctr, ToU32(1)), msg |-> MsgNoError]

\* qtktref that advances noncectr only when it returns a ticket
qtktref_NoAdvanceOnReject(index, ctr) ==
    IF U32Gt(index, ToU32(MAXQ))
    THEN [ret |-> ToU32(QE_INTINCON), ctr |-> ctr, msg |-> MsgIndexMaxq]
    ELSE LET high == And7fff(U32Add(index, ToU32(IOFFSET)))
         IN  IF high # U32Add(index, ToU32(IOFFSET))
             THEN [ret |-> ToU32(QE_INTINCON), ctr |-> ctr, msg |-> MsgIndexBits]
             ELSE LET low == Andffff(U32Add(ctr, ToU32(NOFFSET)))
                  IN  IF low # U32Add(ctr, ToU32(NOFFSET)) \/ low = ToU32(0)
                      THEN [ret |-> ToU32(QE_INTINCON), ctr |-> ctr,
                            msg |-> MsgGeneration]
                      ELSE [ret |-> Pack(high, low),
                            ctr |-> U32Add(ctr, ToU32(1)), msg |-> MsgNoError]

\* qtktref(index) with noncectr = ctr: the QTICKET returned, the value of
\* noncectr afterwards and the message written
qtktref(index, ctr) ==
    IF U32Gt(index, ToU32(MAXQ))
    THEN [ret |-> ToU32(QE_INTINCON), ctr |-> ctr, msg |-> MsgIndexMaxq]
    ELSE LET high == And7fff(U32Add(index, ToU32(IOFFSET)))
         IN  IF high # U32Add(index, ToU32(IOFFSET))
             THEN [ret |-> ToU32(QE_INTINCON), ctr |-> ctr, msg |-> MsgIndexBits]
             ELSE LET low == Andffff(U32Add(ctr, ToU32(NOFFSET)))
                  IN  IF low # U32Add(ctr, ToU32(NOFFSET)) \/ low = ToU32(0)
                      THEN [ret |-> ToU32(QE_INTINCON),
                            ctr |-> U32Add(ctr, ToU32(1)), msg |-> MsgGeneration]
                      ELSE [ret |-> Pack(high, low),
                            ctr |-> U32Add(ctr, ToU32(1)), msg |-> MsgNoError]

\* the index field of a ticket taken without subtracting IOFFSET
TicketIndex_NoOffset(qno) == Andffff(Shr16(qno))

\* index = ((qno >> 16) & 0xffff) - IOFFSET, an unsigned
TicketIndex(qno) == U32Sub(Andffff(Shr16(qno)), ToU32(IOFFSET))

\* qno & 0xffff: the nonce field of a ticket
TicketNonce(qno) == Andffff(qno)

\* readref without the comparison of the stored ticket with qno
readref_NoTicketTest(qno, Q) ==
    LET index == U32Sub(Andffff(Shr16(qno)), ToU32(IOFFSET))
        i == ToI32(index)
    IN
    IF U32Ge(index, ToU32(MAXQ))
    THEN [ret |-> QE_BADTICKET, msg |-> MsgRefIndex]
    ELSE IF Q[i] = NULL
    THEN [ret |-> QE_BADTICKET, msg |-> MsgRefUnused]
    ELSE IF \/ Q[i].head < 0 \/ Q[i].head >= MAXELT
            \/ Q[i].count < 0 \/ Q[i].count > MAXELT
    THEN [ret |-> QE_INTINCON, msg |-> MsgRefHeadCount]
    ELSE IF Andffff(Q[i].ticket) = ToU32(0)
    THEN [ret |-> QE_INTINCON, msg |-> MsgRefNonce]
    ELSE [ret |-> i, msg |-> MsgNoError]

\* readref(qno) on table Q: the int returned and the message written
readref(qno, Q) ==
    LET index == TicketIndex(qno)
        i == ToI32(index)
    IN
    IF U32Ge(index, ToU32(MAXQ))
    THEN [ret |-> QE_BADTICKET, msg |-> MsgRefIndex]
    ELSE IF Q[i] = NULL
    THEN [ret |-> QE_BADTICKET, msg |-> MsgRefUnused]
    ELSE IF Q[i].ticket # qno
    THEN [ret |-> QE_BADTICKET, msg |-> MsgRefOld]
    ELSE IF \/ Q[i].head < 0 \/ Q[i].head >= MAXELT
            \/ Q[i].count < 0 \/ Q[i].count > MAXELT
    THEN [ret |-> QE_INTINCON, msg |-> MsgRefHeadCount]
    ELSE IF TicketNonce(Q[i].ticket) = ToU32(0)
    THEN [ret |-> QE_INTINCON, msg |-> MsgRefNonce]
    ELSE [ret |-> i, msg |-> MsgNoError]

(* ------------------------------------------------------------------ *)
(* The operations, as functions of the state they read.  Each yields   *)
(* the table (and counter) afterwards, the value returned, whether the *)
(* call left by an error return, whether it wrote qe_errbuf and what,  *)
(* and the final value of its local cur.                               *)
(* ------------------------------------------------------------------ *)

\* the scan for a free slot run from the highest index down
FirstFree_Highest(Q) ==
    IF \E i \in Slots : Q[i] = NULL
    THEN CHOOSE i \in Slots : Q[i] = NULL /\ \A j \in Slots : j > i => Q[j] # NULL
    ELSE MAXQ

\* for(cur = 0; cur < MAXQ; cur++) if (queues[cur] == NULL) break;
FirstFree(Q) ==
    IF \E i \in Slots : Q[i] = NULL
    THEN CHOOSE i \in Slots : Q[i] = NULL /\ \A j \in Slots : j < i => Q[j] # NULL
    ELSE MAXQ

\* create_queue that leaves the allocated block in queues[cur] when ticket
\* generation fails
CreateQueue_NoAbend(Q, ctr, mallocOk) ==
    LET cur == FirstFree(Q) IN
    IF cur = MAXQ
    THEN [Q |-> Q, ctr |-> ctr, ret |-> ToU32(QE_TOOMANYQS), fail |-> TRUE,
          wrote |-> TRUE, msg |-> MsgTooMany, cur |-> cur]
    ELSE IF ~mallocOk
    THEN [Q |-> Q, ctr |-> ctr, ret |-> ToU32(QE_NOROOM), fail |-> TRUE,
          wrote |-> TRUE, msg |-> MsgNoMemory, cur |-> cur]
    ELSE LET r == qtktref(ToU32(cur), ctr)
             tkt == ToI32(r.ret)
         IN  IF QE_ISERROR(tkt)
             THEN [Q |-> [Q EXCEPT ![cur] = Malloc], ctr |-> r.ctr, ret |-> ToU32(tkt),
                   fail |-> TRUE, wrote |-> TRUE, msg |-> r.msg, cur |-> cur]
             ELSE [Q |-> [Q EXCEPT ![cur] =
                              [Malloc EXCEPT !.head = 0, !.count = 0,
                                             !.ticket = ToU32(tkt)]],
                   ctr |-> r.ctr, ret |-> ToU32(tkt), fail |-> FALSE,
                   wrote |-> FALSE, msg |-> MsgNoError, cur |-> cur]

\* create_queue that returns QE_TOOMANYQS without filling qe_errbuf
CreateQueue_SilentTooMany(Q, ctr, mallocOk) ==
    LET cur == FirstFree(Q) IN
    IF cur = MAXQ
    THEN [Q |-> Q, ctr |-> ctr, ret |-> ToU32(QE_TOOMANYQS), fail |-> TRUE,
          wrote |-> FALSE, msg |-> MsgNoError, cur |-> cur]
    ELSE IF ~mallocOk
    THEN [Q |-> Q, ctr |-> ctr, ret |-> ToU32(QE_NOROOM), fail |-> TRUE,
          wrote |-> TRUE, msg |-> MsgNoMemory, cur |-> cur]
    ELSE LET r == qtktref(ToU32(cur), ctr)
             tkt == ToI32(r.ret)
         IN  IF QE_ISERROR(tkt)
             THEN [Q |-> [Q EXCEPT ![cur] = NULL], ctr |-> r.ctr, ret |-> ToU32(tkt),
                   fail |-> TRUE, wrote |-> TRUE, msg |-> r.msg, cur |-> cur]
             ELSE [Q |-> [Q EXCEPT ![cur] =
                              [Malloc EXCEPT !.head = 0, !.count = 0,
                                             !.ticket = ToU32(tkt)]],
                   ctr |-> r.ctr, ret |-> ToU32(tkt), fail |-> FALSE,
                   wrote |-> FALSE, msg |-> MsgNoError, cur |-> cur]

\* create_queue(); mallocOk: whether malloc returns a block.  .ret is the
\* QTICKET returned.
CreateQueue(Q, ctr, mallocOk) ==
    LET cur == FirstFree(Q) IN
    IF cur = MAXQ
    THEN [Q |-> Q, ctr |-> ctr, ret |-> ToU32(QE_TOOMANYQS), fail |-> TRUE,
          wrote |-> TRUE, msg |-> MsgTooMany, cur |-> cur]
    ELSE IF ~mallocOk
    THEN [Q |-> Q, ctr |-> ctr, ret |-> ToU32(QE_NOROOM), fail |-> TRUE,
          wrote |-> TRUE, msg |-> MsgNoMemory, cur |-> cur]
    ELSE LET r == qtktref(ToU32(cur), ctr)
             tkt == ToI32(r.ret)
         IN  IF QE_ISERROR(tkt)
             THEN [Q |-> [Q EXCEPT ![cur] = NULL], ctr |-> r.ctr, ret |-> ToU32(tkt),
                   fail |-> TRUE, wrote |-> TRUE, msg |-> r.msg, cur |-> cur]
             ELSE [Q |-> [Q EXCEPT ![cur] =
                              [Malloc EXCEPT !.head = 0, !.count = 0,
                                             !.ticket = ToU32(tkt)]],
                   ctr |-> r.ctr, ret |-> ToU32(tkt), fail |-> FALSE,
                   wrote |-> FALSE, msg |-> MsgNoError, cur |-> cur]

\* delete_queue that frees the queue and does not reset the array element
DeleteQueue_KeepsSlot(qno, Q) ==
    LET r == readref(qno, Q) IN
    IF QE_ISERROR(r.ret)
    THEN [Q |-> Q, ret |-> r.ret, fail |-> TRUE, wrote |-> TRUE, msg |-> r.msg,
          cur |-> r.ret]
    ELSE [Q |-> Q, ret |-> QE_NONE, fail |-> FALSE,
          wrote |-> FALSE, msg |-> MsgNoError, cur |-> r.ret]

\* delete_queue that empties the whole table
DeleteQueue_FreesAll(qno, Q) ==
    LET r == readref(qno, Q) IN
    IF QE_ISERROR(r.ret)
    THEN [Q |-> Q, ret |-> r.ret, fail |-> TRUE, wrote |-> TRUE, msg |-> r.msg,
          cur |-> r.ret]
    ELSE [Q |-> [i \in Slots |-> NULL], ret |-> QE_NONE, fail |-> FALSE,
          wrote |-> FALSE, msg |-> MsgNoError, cur |-> r.ret]

\* delete_queue(qno)
DeleteQueue(qno, Q) ==
    LET r == readref(qno, Q) IN
    IF QE_ISERROR(r.ret)
    THEN [Q |-> Q, ret |-> r.ret, fail |-> TRUE, wrote |-> TRUE, msg |-> r.msg,
          cur |-> r.ret]
    ELSE [Q |-> [Q EXCEPT ![r.ret] = NULL], ret |-> QE_NONE, fail |-> FALSE,
          wrote |-> FALSE, msg |-> MsgNoError, cur |-> r.ret]

\* put_on_queue with the full test written count > MAXELT
PutOnQueue_LateFullTest(qno, n, Q) ==
    LET r == readref(qno, Q) IN
    IF QE_ISERROR(r.ret)
    THEN [Q |-> Q, ret |-> r.ret, fail |-> TRUE, wrote |-> TRUE, msg |-> r.msg,
          cur |-> r.ret]
    ELSE LET q == Q[r.ret] IN
         IF q.count > MAXELT
         THEN [Q |-> Q, ret |-> QE_TOOFULL, fail |-> TRUE, wrote |-> TRUE,
               msg |-> MsgQueueFull, cur |-> r.ret]
         ELSE LET at == (q.head + q.count) % MAXELT IN
              [Q |-> [Q EXCEPT ![r.ret] =
                         [q EXCEPT !.que[at] = n, !.written[at] = TRUE,
                                   !.count = q.count + 1]],
               ret |-> QE_NONE, fail |-> FALSE, wrote |-> FALSE, msg |-> MsgNoError,
               cur |-> r.ret]

\* put_on_queue that writes the element at head
PutOnQueue_AtHead(qno, n, Q) ==
    LET r == readref(qno, Q) IN
    IF QE_ISERROR(r.ret)
    THEN [Q |-> Q, ret |-> r.ret, fail |-> TRUE, wrote |-> TRUE, msg |-> r.msg,
          cur |-> r.ret]
    ELSE LET q == Q[r.ret] IN
         IF q.count = MAXELT
         THEN [Q |-> Q, ret |-> QE_TOOFULL, fail |-> TRUE, wrote |-> TRUE,
               msg |-> MsgQueueFull, cur |-> r.ret]
         ELSE LET at == q.head IN
              [Q |-> [Q EXCEPT ![r.ret] =
                         [q EXCEPT !.que[at] = n, !.written[at] = TRUE,
                                   !.count = q.count + 1]],
               ret |-> QE_NONE, fail |-> FALSE, wrote |-> FALSE, msg |-> MsgNoError,
               cur |-> r.ret]

\* put_on_queue(qno, n)
PutOnQueue(qno, n, Q) ==
    LET r == readref(qno, Q) IN
    IF QE_ISERROR(r.ret)
    THEN [Q |-> Q, ret |-> r.ret, fail |-> TRUE, wrote |-> TRUE, msg |-> r.msg,
          cur |-> r.ret]
    ELSE LET q == Q[r.ret] IN
         IF q.count = MAXELT
         THEN [Q |-> Q, ret |-> QE_TOOFULL, fail |-> TRUE, wrote |-> TRUE,
               msg |-> MsgQueueFull, cur |-> r.ret]
         ELSE LET at == (q.head + q.count) % MAXELT IN
              [Q |-> [Q EXCEPT ![r.ret] =
                         [q EXCEPT !.que[at] = n, !.written[at] = TRUE,
                                   !.count = q.count + 1]],
               ret |-> QE_NONE, fail |-> FALSE, wrote |-> FALSE, msg |-> MsgNoError,
               cur |-> r.ret]

\* take_off_queue that takes the element at the tail
TakeOffQueue_FromTail(qno, Q) ==
    LET r == readref(qno, Q) IN
    IF QE_ISERROR(r.ret)
    THEN [Q |-> Q, ret |-> r.ret, fail |-> TRUE, wrote |-> TRUE, msg |-> r.msg,
          cur |-> r.ret]
    ELSE LET q == Q[r.ret] IN
         IF q.count = 0
         THEN [Q |-> Q, ret |-> QE_EMPTY, fail |-> TRUE, wrote |-> TRUE,
               msg |-> MsgQueueEmpty, cur |-> r.ret]
         ELSE LET n == (q.head + q.count - 1) % MAXELT IN
              [Q |-> [Q EXCEPT ![r.ret] = [q EXCEPT !.count = q.count - 1]],
               ret |-> q.que[n], fail |-> FALSE, wrote |-> FALSE, msg |-> MsgNoError,
               cur |-> r.ret]

\* take_off_queue that advances head without the modulus
TakeOffQueue_NoWrap(qno, Q) ==
    LET r == readref(qno, Q) IN
    IF QE_ISERROR(r.ret)
    THEN [Q |-> Q, ret |-> r.ret, fail |-> TRUE, wrote |-> TRUE, msg |-> r.msg,
          cur |-> r.ret]
    ELSE LET q == Q[r.ret] IN
         IF q.count = 0
         THEN [Q |-> Q, ret |-> QE_EMPTY, fail |-> TRUE, wrote |-> TRUE,
               msg |-> MsgQueueEmpty, cur |-> r.ret]
         ELSE LET n == q.head IN
              [Q |-> [Q EXCEPT ![r.ret] =
                         [q EXCEPT !.count = q.count - 1, !.head = q.head + 1]],
               ret |-> q.que[n], fail |-> FALSE, wrote |-> FALSE, msg |-> MsgNoError,
               cur |-> r.ret]

\* take_off_queue(qno)
TakeOffQueue(qno, Q) ==
    LET r == readref(qno, Q) IN
    IF QE_ISERROR(r.ret)
    THEN [Q |-> Q, ret |-> r.ret, fail |-> TRUE, wrote |-> TRUE, msg |-> r.msg,
          cur |-> r.ret]
    ELSE LET q == Q[r.ret] IN
         IF q.count = 0
         THEN [Q |-> Q, ret |-> QE_EMPTY, fail |-> TRUE, wrote |-> TRUE,
               msg |-> MsgQueueEmpty, cur |-> r.ret]
         ELSE LET n == q.head IN
              [Q |-> [Q EXCEPT ![r.ret] =
                         [q EXCEPT !.count = q.count - 1,
                                   !.head = (q.head + 1) % MAXELT]],
               ret |-> q.que[n], fail |-> FALSE, wrote |-> FALSE, msg |-> MsgNoError,
               cur |-> r.ret]

\* the do { ... } while (l != m) loop of list_queue: the cells printed, in order
RECURSIVE ListLoop(_, _, _)
ListLoop(l, m, printed) ==
    LET l2 == (l + 1) % MAXELT IN
    IF l2 # m THEN ListLoop(l2, m, Append(printed, l)) ELSE Append(printed, l)

\* the cells of q that list_queue prints, in order
ListCells(q) ==
    IF q.head # EMPTY
    THEN ListLoop(q.head, (q.head + q.count) % MAXELT, <<>>)
    ELSE <<>>

\* list_queue(qno); the cells printed are in .cells
ListQueue(qno, Q) ==
    LET r == readref(qno, Q) IN
    IF QE_ISERROR(r.ret)
    THEN [Q |-> Q, ret |-> r.ret, fail |-> TRUE, wrote |-> TRUE, msg |-> r.msg,
          cur |-> r.ret, cells |-> <<>>]
    ELSE [Q |-> Q, ret |-> QE_NONE, fail |-> FALSE, wrote |-> FALSE,
          msg |-> MsgNoError, cur |-> r.ret, cells |-> ListCells(Q[r.ret])]

(* ------------------------------------------------------------------ *)
(* The callers                                                         *)
(* ------------------------------------------------------------------ *)

\* the operations that take a ticket
TicketOps == {"delete", "put", "take", "list"}

\* the slot index in [0, MAXQ) that ticket t decodes to, or MAXQ if it decodes
\* to none
SlotOf(t) ==
    LET index == TicketIndex(t) IN
    IF index[1] = 0 /\ index[2] < MAXQ THEN index[2] ELSE MAXQ

\* ticket t is the ticket of a live queue of table Q
IsLive(t, Q) == SlotOf(t) \in Slots /\ Q[SlotOf(t)] # NULL /\ Q[SlotOf(t)].ticket = t

\* the tickets stored in the table
LiveTickets == {queues[i].ticket : i \in {j \in Slots : queues[j] # NULL}}

\* tickets no create_queue of the run has returned: zero, an error code kept as
\* a ticket, the index just past the table, an index below the offset, and
\* slot 0 with a nonce field of zero
Forged ==
    {<<IOFFSET + MAXQ, NOFFSET + 1>>, <<IOFFSET - 1, NOFFSET + 1>>, <<IOFFSET, 0>>}

\* what a caller may present as a ticket
Presented == LiveTickets \cup stale \cup Forged

\* the ticket of the first create_queue call of the process (slot 0, noncectr 1)
FirstTicket == <<IOFFSET, 1 + NOFFSET>>

\* The runs explored.  ctr is the value of noncectr at the start: the initial
\* 1, two before the last nonce that fits 16 bits, the value at which
\* noncectr + NOFFSET wraps to 0, and the last value before noncectr itself
\* wraps.  stale holds the tickets deleted before the start; mints and puts
\* are the numbers of tickets the caller may have generated and of elements
\* it may append.
Runs ==
    { [ctr |-> ToU32(1), stale |-> {}, mints |-> 1, puts |-> MaxPut],
      [ctr |-> ToU32(1), stale |-> {}, mints |-> 2, puts |-> 2],
      [ctr |-> ToU32(1), stale |-> {}, mints |-> MaxMint, puts |-> 0],
      [ctr |-> ToU32(1), stale |-> {FirstTicket}, mints |-> 1, puts |-> 1],
      [ctr |-> ToU32(U16 - NOFFSET - 2), stale |-> {}, mints |-> MaxMint, puts |-> 0],
      [ctr |-> ToU32(-NOFFSET - 1), stale |-> {}, mints |-> MaxMint, puts |-> 0],
      [ctr |-> ToU32(-1), stale |-> {}, mints |-> 2, puts |-> 0] }

NoFifo == [phase |-> "off", ins |-> <<>>, outs |-> <<>>]

NoCall == [op |-> "none", qno |-> <<0, 0>>, ret |-> 0, fail |-> FALSE, wrote |-> FALSE]

(***************************************************************************)
(* The initial states are the states of the library with an empty table:   *)
(* the state after loading (noncectr = 1, nothing deleted yet) and the     *)
(* states a program reaches from it by create_queue / delete_queue calls   *)
(* that leave the table empty again.  Every call of create_queue that      *)
(* reaches qtktref adds one to noncectr (modulo 2^32), so every value of   *)
(* noncectr occurs with an empty table; the first ticket issued may have   *)
(* been deleted since.                                                     *)
(*                                                                         *)
(* A run is the calls of one caller from such a state, as listed in Runs:   *)
(* on one queue with up to MaxPut appends, on two queues with two appends, *)
(* or on up to MaxMint generated tickets without appends.                  *)
(***************************************************************************)
Init ==
    /\ queues = [i \in Slots |-> NULL]
    /\ qe_errbuf = MsgNoError
    /\ last = NoCall
    /\ out = <<>>
    /\ fifo = [i \in Slots |-> NoFifo]
    /\ aseq = [i \in Slots |-> <<>>]
    /\ retry = "none"
    /\ \E run \in Runs :
          /\ noncectr = run.ctr
          /\ stale = run.stale
          /\ mintsLeft = run.mints
          /\ putsLeft = run.puts

IsFull(Q) == \A i \in Slots : Q[i] # NULL

\* The queue of integers that the library implements, as sequences: a put with
\* the ticket of a live queue appends n unless the sequence has MAXELT
\* elements, a take removes the first element unless the sequence is empty;
\* with any other ticket nothing changes.
AbstractPut(qno, n) ==
    IF IsLive(qno, queues) /\ Len(aseq[SlotOf(qno)]) < MAXELT
    THEN [aseq EXCEPT ![SlotOf(qno)] = Append(@, n)]
    ELSE aseq

AbstractTake(qno) ==
    IF IsLive(qno, queues) /\ Len(aseq[SlotOf(qno)]) > 0
    THEN [aseq EXCEPT ![SlotOf(qno)] = Tail(@)]
    ELSE aseq

create_queue ==
    \E mallocOk \in BOOLEAN :
        LET r == CreateQueue(queues, noncectr, mallocOk) IN
        /\ r.ctr # noncectr => mintsLeft > 0
        /\ queues' = r.Q
        /\ noncectr' = r.ctr
        /\ qe_errbuf' = IF r.wrote THEN r.msg ELSE qe_errbuf
        /\ last' = [op |-> "create", qno |-> <<0, 0>>, ret |-> ToI32(r.ret), fail |-> r.fail,
                    wrote |-> r.wrote]
        /\ out' = <<>>
        /\ fifo' = IF r.fail THEN fifo
                   ELSE [fifo EXCEPT ![r.cur] = [phase |-> "put", ins |-> <<>>,
                                                 outs |-> <<>>]]
        /\ aseq' = IF r.fail THEN aseq ELSE [aseq EXCEPT ![r.cur] = <<>>]
        /\ retry' = IF retry # "freed" THEN "none"
                    ELSE IF r.fail THEN "failed" ELSE "ok"
        /\ mintsLeft' = IF r.ctr # noncectr THEN mintsLeft - 1 ELSE mintsLeft
        /\ UNCHANGED <<stale, putsLeft>>

delete_queue ==
    \E qno \in Presented :
        LET r == DeleteQueue(qno, queues) IN
        /\ queues' = r.Q
        /\ qe_errbuf' = IF r.wrote THEN r.msg ELSE qe_errbuf
        /\ last' = [op |-> "delete", qno |-> qno, ret |-> r.ret, fail |-> r.fail,
                    wrote |-> r.wrote]
        /\ out' = <<>>
        /\ stale' = IF r.fail THEN stale ELSE stale \cup {qno}
        /\ fifo' = [i \in Slots |-> IF r.Q[i] = NULL THEN NoFifo ELSE fifo[i]]
        /\ aseq' = [i \in Slots |-> IF r.Q[i] = NULL THEN <<>> ELSE aseq[i]]
        /\ retry' = IF r.fail THEN retry
                    ELSE IF IsFull(queues) THEN "freed" ELSE "none"
        /\ UNCHANGED <<noncectr, mintsLeft, putsLeft>>

put_on_queue ==
    \E qno \in Presented, n \in Values :
        LET r == PutOnQueue(qno, n, queues)
            i == r.cur
        IN
        /\ ~r.fail => putsLeft > 0
        /\ putsLeft' = IF r.fail THEN putsLeft ELSE putsLeft - 1
        /\ queues' = r.Q
        /\ qe_errbuf' = IF r.wrote THEN r.msg ELSE qe_errbuf
        /\ last' = [op |-> "put", qno |-> qno, ret |-> r.ret, fail |-> r.fail,
                    wrote |-> r.wrote]
        /\ out' = <<>>
        /\ fifo' = IF r.fail THEN fifo
                   ELSE IF fifo[i].phase = "put"
                   THEN [fifo EXCEPT ![i].ins = Append(@, n)]
                   ELSE [fifo EXCEPT ![i] = NoFifo]
        /\ aseq' = AbstractPut(qno, n)
        /\ UNCHANGED <<noncectr, stale, retry, mintsLeft>>

take_off_queue ==
    \E qno \in Presented :
        LET r == TakeOffQueue(qno, queues)
            i == r.cur
        IN
        /\ queues' = r.Q
        /\ qe_errbuf' = IF r.wrote THEN r.msg ELSE qe_errbuf
        /\ last' = [op |-> "take", qno |-> qno, ret |-> r.ret, fail |-> r.fail,
                    wrote |-> r.wrote]
        /\ out' = <<>>
        /\ fifo' = IF r.fail \/ fifo[i].phase = "off" THEN fifo
                   ELSE [fifo EXCEPT ![i].phase = "take",
                                     ![i].outs = Append(@, r.ret)]
        /\ aseq' = AbstractTake(qno)
        /\ UNCHANGED <<noncectr, stale, retry, mintsLeft, putsLeft>>

list_queue ==
    \E qno \in Presented :
        LET r == ListQueue(qno, queues)
            unwritten == IF r.fail THEN {}
                         ELSE {c \in Cells : /\ \E k \in 1 .. Len(r.cells) : r.cells[k] = c
                                             /\ ~queues[r.cur].written[c]}
        IN
        \E junk \in [unwritten -> Values] :
            /\ queues' = r.Q
            /\ qe_errbuf' = IF r.wrote THEN r.msg ELSE qe_errbuf
            /\ last' = [op |-> "list", qno |-> qno, ret |-> r.ret, fail |-> r.fail,
                        wrote |-> r.wrote]
            /\ out' = IF r.fail THEN <<>>
                      ELSE LET q == queues[r.cur] IN
                           [k \in 1 .. Len(r.cells) |->
                               IF q.written[r.cells[k]] THEN q.que[r.cells[k]]
                               ELSE junk[r.cells[k]]]
            /\ UNCHANGED <<noncectr, stale, fifo, aseq, retry, mintsLeft, putsLeft>>

Next ==
    \/ create_queue
    \/ delete_queue
    \/ put_on_queue
    \/ take_off_queue
    \/ list_queue

Spec == Init /\ [][Next]_vars

(* ------------------------------------------------------------------ *)
(* qtktref on its own: the function applied to index arguments inside  *)
(* and outside the table, at the counter values of the runs.           *)
(* ------------------------------------------------------------------ *)

\* index arguments: the indices of the table, MAXQ, MAXQ + 1, the first index
\* for which index + IOFFSET needs 16 bits, and -1 converted to unsigned
IndexArgs ==
    {ToU32(i) : i \in 0 .. (MAXQ + 1)} \cup {ToU32(U16 \div 2 - IOFFSET), ToU32(-1)}

qtktref_call ==
    \E index \in IndexArgs :
        LET r == qtktref(index, noncectr)
            tkt == ToI32(r.ret)
        IN
        /\ r.ctr # noncectr => mintsLeft > 0
        /\ noncectr' = r.ctr
        /\ qe_errbuf' = IF QE_ISERROR(tkt) THEN r.msg ELSE qe_errbuf
        /\ last' = [op |-> "qtktref", qno |-> index, ret |-> tkt,
                    fail |-> QE_ISERROR(tkt), wrote |-> QE_ISERROR(tkt)]
        /\ mintsLeft' = IF r.ctr # noncectr THEN mintsLeft - 1 ELSE mintsLeft
        /\ UNCHANGED <<queues, out, stale, fifo, aseq, retry, putsLeft>>

SpecQtktref == Init /\ [][qtktref_call]_vars

(* ================================================================== *)
(* Properties                                                          *)
(* ================================================================== *)

\* noncectr + NOFFSET fits in 16 bits and is not zero
GenerationFits(ctr) ==
    LET sum == U32Add(ctr, ToU32(NOFFSET)) IN sum[1] = 0 /\ sum[2] # 0

\* the error code that each message of qe_errbuf describes
ErrorOf(msg) ==
    CASE msg \in {MsgRefIndex, MsgRefUnused, MsgRefOld} -> QE_BADTICKET
      [] msg \in {MsgRefHeadCount, MsgRefNonce, MsgIndexMaxq, MsgIndexBits,
                  MsgGeneration} -> QE_INTINCON
      [] msg = MsgTooMany -> QE_TOOMANYQS
      [] msg = MsgNoMemory -> QE_NOROOM
      [] msg = MsgQueueFull -> QE_TOOFULL
      [] msg = MsgQueueEmpty -> QE_EMPTY
      [] OTHER -> QE_NONE

(* C1. Stale rejection: once delete_queue(h) has succeeded, every later     *)
(* delete_queue, put_on_queue, take_off_queue or list_queue call that       *)
(* presents h fails with QE_BADTICKET, whatever was called in between.      *)
C1_StaleRejected ==
    [][(last'.op \in TicketOps /\ last'.qno \in stale)
          => (last'.fail /\ last'.ret = QE_BADTICKET)]_vars

(* C2. Handle uniqueness: no two live tickets (tickets stored in occupied   *)
(* slots) decode to the same slot index with the same generation field.     *)
C2_LiveTicketsDistinct ==
    \A i, j \in Slots :
        (i # j /\ queues[i] # NULL /\ queues[j] # NULL)
            => ~(/\ TicketIndex(queues[i].ticket) = TicketIndex(queues[j].ticket)
                 /\ TicketNonce(queues[i].ticket) = TicketNonce(queues[j].ticket))

\* both slots 0 and 1 hold a queue, and slot 0 holds another ticket than one
\* deleted from it before
C2_Witness ==
    /\ queues[0] # NULL /\ queues[1] # NULL
    /\ \E h \in stale : SlotOf(h) = 0 /\ h # queues[0].ticket

(* C3. FIFO law: on a queue whose calls since its creation were n           *)
(* successful put_on_queue calls (values v1..vn) followed by successful     *)
(* take_off_queue calls, the k-th take_off_queue returns vk, and the take   *)
(* after the n-th fails with QE_EMPTY.                                      *)
C3_FifoLaw ==
    [][\A i \in Slots :
          (/\ last'.op = "take"
           /\ queues[i] # NULL /\ queues[i].ticket = last'.qno
           /\ fifo[i].phase # "off")
          => IF Len(fifo[i].outs) < Len(fifo[i].ins)
             THEN ~last'.fail /\ last'.ret = fifo[i].ins[Len(fifo[i].outs) + 1]
             ELSE last'.fail /\ last'.ret = QE_EMPTY]_vars

\* MAXELT values, not all equal, were put and taken off in that order, and one
\* more take_off_queue has just failed with QE_EMPTY
C3_Witness ==
    \E i \in Slots :
        /\ queues[i] # NULL /\ fifo[i].phase = "take"
        /\ Len(fifo[i].ins) = MAXELT /\ fifo[i].outs = fifo[i].ins
        /\ fifo[i].ins[1] # fifo[i].ins[MAXELT]
        /\ last.op = "take" /\ last.qno = queues[i].ticket
        /\ last.fail /\ last.ret = QE_EMPTY

(* C4. Capacity boundary: put_on_queue on a queue with count = MAXELT fails *)
(* with QE_TOOFULL, take_off_queue on a queue with count = 0 fails with     *)
(* QE_EMPTY, and either call leaves the table and noncectr as they were.    *)
C4_CapacityBoundary ==
    [][\A i \in Slots :
          (queues[i] # NULL /\ queues[i].ticket = last'.qno)
          => /\ (last'.op = "put" /\ queues[i].count = MAXELT)
                    => /\ last'.fail /\ last'.ret = QE_TOOFULL
                       /\ queues' = queues /\ noncectr' = noncectr
             /\ (last'.op = "take" /\ queues[i].count = 0)
                    => /\ last'.fail /\ last'.ret = QE_EMPTY
                       /\ queues' = queues /\ noncectr' = noncectr]_vars

\* a put_on_queue on a full queue has just failed
C4_Witness ==
    /\ last.op = "put" /\ last.fail /\ last.ret = QE_TOOFULL
    /\ \E i \in Slots : /\ queues[i] # NULL /\ queues[i].ticket = last.qno
                        /\ queues[i].count = MAXELT

C6_LowestIndexReuse ==
    [][(last'.op = "create" /\ ~last'.fail)
          => \A i \in Slots :
                (queues[i] = NULL /\ \A j \in Slots : j < i => queues[j] # NULL)
                => /\ queues'[i] # NULL
                   /\ SlotOf(ToU32(last'.ret)) = i
                   /\ \A j \in Slots : j # i => queues'[j] = queues[j]]_vars

\* slot 1 is occupied and a create_queue has just reused slot 0, freed before
C6_Witness ==
    /\ last.op = "create" /\ ~last.fail /\ SlotOf(ToU32(last.ret)) = 0
    /\ queues[1] # NULL
    /\ \E h \in stale : SlotOf(h) = 0 /\ h # queues[0].ticket

(* C7, as stated. Table exhaustion: create_queue on a full table fails      *)
(* with QE_TOOMANYQS, and the first create_queue call after a delete_queue  *)
(* has emptied a slot of the full table succeeds.                           *)
C7_RetrySucceeds ==
    [][last'.op = "create"
          => /\ IsFull(queues) => (last'.fail /\ last'.ret = QE_TOOMANYQS)
             /\ retry = "freed" => ~last'.fail]_vars

(* C7, amended. create_queue on a full table fails with QE_TOOMANYQS; the   *)
(* first create_queue call after a delete_queue has emptied a slot of the   *)
(* full table succeeds unless malloc fails (QE_NOROOM) or noncectr +        *)
(* NOFFSET does not fit in 16 bits or is zero (QE_INTINCON).                *)
C7_RetrySucceedsIfMinted ==
    [][last'.op = "create"
          => /\ IsFull(queues) => (last'.fail /\ last'.ret = QE_TOOMANYQS)
             /\ retry = "freed"
                    => IF last'.fail
                       THEN \/ last'.ret = QE_NOROOM
                            \/ last'.ret = QE_INTINCON /\ ~GenerationFits(noncectr)
                       ELSE GenerationFits(noncectr) /\ IsFull(queues')]_vars

\* the table was full, a delete_queue emptied a slot and the create_queue call
\* after it has just filled the table again
C7_Witness ==
    retry = "ok" /\ last.op = "create" /\ ~last.fail /\ IsFull(queues)

(* C8, as stated. No partial mutation on failure: whenever a public         *)
(* operation returns an error, the table and noncectr are as before the     *)
(* call.                                                                    *)
C8_FailureChangesNothing ==
    [][last'.fail => (queues' = queues /\ noncectr' = noncectr)]_vars

(* C8, amended. Whenever a public operation returns an error, the table is  *)
(* as before the call, and so is noncectr, except that a create_queue that  *)
(* fails in ticket generation (QE_INTINCON) has advanced noncectr by one.   *)
C8_FailureKeepsTable ==
    [][last'.fail
          => /\ queues' = queues
             /\ noncectr' = IF last'.op = "create" /\ last'.ret = QE_INTINCON
                            THEN U32Add(noncectr, ToU32(1))
                            ELSE noncectr]_vars

\* a create_queue has just failed in ticket generation with a queue live
C8_Witness ==
    /\ last.op = "create" /\ last.fail /\ last.ret = QE_INTINCON
    /\ \E i \in Slots : queues[i] # NULL

(* C9. Error buffer: a public operation that returns an error writes        *)
(* qe_errbuf, with a message for that error, during the call; one that      *)
(* succeeds leaves qe_errbuf as it was.                                     *)
C9_ErrorBuffer ==
    [][last'.op # "none"
          => IF last'.fail
             THEN last'.wrote /\ ErrorOf(qe_errbuf') = last'.ret
             ELSE ~last'.wrote /\ qe_errbuf' = qe_errbuf]_vars

\* a take_off_queue has just succeeded and qe_errbuf still holds the message of
\* an earlier failed put_on_queue
C9_Witness ==
    last.op = "take" /\ ~last.fail /\ qe_errbuf = MsgQueueFull

(* C10. Ticket sign: what a successful create_queue returns is, read as a   *)
(* signed 32-bit integer, strictly positive (bit 31 clear, low 16 bits not  *)
(* zero), so it is no error for QE_ISERROR and equals no error code; what   *)
(* a failed create_queue returns is negative.                               *)
C10_TicketSign ==
    last.op = "create"
        => IF last.fail
           THEN last.ret < 0
           ELSE /\ last.ret > 0
                /\ ToU32(last.ret)[1] < U16 \div 2
                /\ ToU32(last.ret)[2] # 0
                /\ ~QE_ISERROR(last.ret)
                /\ last.ret \notin {QE_BADPARAM, QE_BADTICKET, QE_EMPTY, QE_FULL,
                                    QE_NOROOM, QE_TOOMANYQS, QE_INTINCON, QE_TOOFULL}

\* a create_queue has just returned the ticket with the smallest nonce field, 1
C10_Witness ==
    last.op = "create" /\ ~last.fail /\ ToU32(last.ret)[2] = 1

(* C11. Dequeue failures are distinguishable from values: what              *)
(* take_off_queue returns satisfies QE_ISERROR if and only if the call      *)
(* failed, for every element value that put_on_queue accepted.              *)
C11_DequeueDistinguishable ==
    [][last'.op = "take" => (QE_ISERROR(last'.ret) <=> last'.fail)]_vars

(* C12. Slot invariants: every occupied slot has 0 <= head < MAXELT,        *)
(* 0 <= count <= MAXELT and a stored ticket whose low 16 bits are not zero, *)
(* and no delete_queue, put_on_queue, take_off_queue or list_queue call     *)
(* leaves by the error return QE_INTINCON.                                  *)
C12_SlotInvariants ==
    /\ \A i \in Slots :
          queues[i] # NULL
              => /\ queues[i].head \in 0 .. (MAXELT - 1)
                 /\ queues[i].count \in 0 .. MAXELT
                 /\ TicketNonce(queues[i].ticket) # ToU32(0)
    /\ (last.op \in TicketOps /\ last.fail) => last.ret # QE_INTINCON

\* a call has just gone through to a queue whose head is at the last cell and
\* whose count is MAXELT
C12_Witness ==
    /\ last.op \in TicketOps /\ ~last.fail
    /\ \E i \in Slots : /\ queues[i] # NULL /\ queues[i].ticket = last.qno
                        /\ queues[i].head = MAXELT - 1 /\ queues[i].count = MAXELT

\* slot i of table Q is the lowest empty one
LowestEmpty(i, Q) == Q[i] = NULL /\ \A j \in Slots : j < i => Q[j] # NULL

\* create_queue has filled slot i of table Q2 with an empty queue whose ticket,
\* the value returned, is made of index i and of ctr + NOFFSET; the other slots
\* are those of table Q
FilledSlot(i, Q, Q2, ctr, ret) ==
    /\ Q2[i] # NULL
    /\ Q2[i].head = 0 /\ Q2[i].count = 0
    /\ Q2[i].ticket = ToU32(ret)
    /\ Q2[i].ticket = <<i + IOFFSET, U32Add(ctr, ToU32(NOFFSET))[2]>>
    /\ \A j \in Slots : j # i => Q2[j] = Q[j]

(* C13, as stated. Mint failure: when a free slot exists, create_queue      *)
(* fails with QE_INTINCON exactly when noncectr + NOFFSET does not fit in   *)
(* 16 bits or its low 16 bits are zero; the table is then as before; in     *)
(* every other case, the allocation succeeding, create_queue succeeds with  *)
(* head = 0, count = 0 and the new ticket stored in the chosen slot.        *)
C13_MintFailure ==
    [][\A i \in Slots :
          (last'.op = "create" /\ LowestEmpty(i, queues))
          => /\ (last'.fail /\ last'.ret = QE_INTINCON) <=> ~GenerationFits(noncectr)
             /\ ~GenerationFits(noncectr) => queues' = queues
             /\ (GenerationFits(noncectr) /\ last'.ret # QE_NOROOM)
                    => /\ ~last'.fail
                       /\ FilledSlot(i, queues, queues', noncectr, last'.ret)]_vars

(* C13, amended. When a free slot exists and the allocation succeeds (the   *)
(* call does not return QE_NOROOM), create_queue fails with QE_INTINCON     *)
(* exactly when noncectr + NOFFSET does not fit in 16 bits or its low 16    *)
(* bits are zero, and the table is then as before; otherwise it succeeds    *)
(* with head = 0, count = 0 and the new ticket stored in the chosen slot.   *)
(* When the allocation fails it returns QE_NOROOM, whatever noncectr is.    *)
C13_MintFailureIfAllocated ==
    [][\A i \in Slots :
          (last'.op = "create" /\ LowestEmpty(i, queues))
          => IF last'.ret = QE_NOROOM
             THEN last'.fail /\ queues' = queues
             ELSE /\ (last'.fail /\ last'.ret = QE_INTINCON) <=> ~GenerationFits(noncectr)
                  /\ ~GenerationFits(noncectr) => queues' = queues
                  /\ GenerationFits(noncectr)
                        => /\ ~last'.fail
                           /\ FilledSlot(i, queues, queues', noncectr, last'.ret)]_vars

\* a create_queue has just rejected the nonce whose low 16 bits are zero
C13_Witness ==
    /\ last.op = "create" /\ last.fail /\ last.ret = QE_INTINCON
    /\ noncectr = ToU32(1 - NOFFSET)

(* C14. The generation counter is monotonic: no public operation decreases  *)
(* noncectr, and no successful create_queue stamps a generation value that  *)
(* an earlier ticket of the table, live or deleted, carries.                *)
C14_CounterMonotonic ==
    [][/\ U32Ge(noncectr', noncectr)
       /\ (last'.op = "create" /\ ~last'.fail)
              => \A h \in LiveTickets \cup stale :
                    TicketNonce(h) # TicketNonce(ToU32(last'.ret))]_vars

(* C15. Counter advance per mint: a create_queue call that finds a free     *)
(* slot and reaches ticket generation (its allocation succeeds) advances    *)
(* noncectr by exactly one, modulo 2^32, whether it then returns a ticket   *)
(* or QE_INTINCON; a create_queue call that fails with QE_TOOMANYQS leaves  *)
(* noncectr unchanged.                                                      *)
C15_CounterAdvance ==
    [][last'.op = "create"
          => IF IsFull(queues)
             THEN last'.ret = QE_TOOMANYQS /\ noncectr' = noncectr
             ELSE IF last'.ret = QE_NOROOM
             THEN noncectr' = noncectr
             ELSE /\ noncectr' = U32Add(noncectr, ToU32(1))
                  /\ last'.fail => last'.ret = QE_INTINCON]_vars

\* with a queue live, a create_queue has just rejected the first nonce that
\* does not fit 16 bits, and noncectr is one past it
C15_Witness ==
    /\ last.op = "create" /\ last.fail /\ last.ret = QE_INTINCON
    /\ noncectr = ToU32(U16 - NOFFSET + 1)
    /\ \E i \in Slots : queues[i] # NULL

(* C16. Frame of the operations that take a ticket: delete_queue,           *)
(* put_on_queue, take_off_queue and list_queue leave noncectr as it was and *)
(* change no slot other than the one the ticket presented decodes to;       *)
(* delete_queue leaves its slot as it was or empty, and empty when it       *)
(* succeeds; list_queue leaves the whole table as it was.                   *)
C16_Frame ==
    [][last'.op \in TicketOps
          => /\ noncectr' = noncectr
             /\ \A j \in Slots : j # SlotOf(last'.qno) => queues'[j] = queues[j]
             /\ last'.op = "delete"
                    => \A j \in Slots :
                          /\ queues'[j] \in {queues[j], NULL}
                          /\ (~last'.fail /\ j = SlotOf(last'.qno)) => queues'[j] = NULL
             /\ last'.op = "list" => queues' = queues]_vars

\* a put_on_queue has just appended to one queue while another queue holds an
\* element
C16_Witness ==
    /\ last.op = "put" /\ ~last.fail
    /\ \E i, j \in Slots :
          /\ i # j /\ queues[i] # NULL /\ queues[j] # NULL
          /\ queues[i].ticket = last.qno /\ queues[j].count > 0

\* the ring of occupied slot i of table Q holds the sequence s: count is its
\* length and the cells from head on, modulo MAXELT, hold its elements in order
RingHolds(i, Q, s) ==
    /\ Q[i].count = Len(s)
    /\ \A k \in 1 .. Len(s) : Q[i].que[(Q[i].head + k - 1) % MAXELT] = s[k]

(* C17. The ring buffer refines a FIFO sequence: in every state each live   *)
(* queue holds, from head on modulo MAXELT, the sequence made by the puts   *)
(* and takes so far; put_on_queue with a live ticket succeeds exactly when  *)
(* count < MAXELT and then appends at the tail; take_off_queue succeeds     *)
(* exactly when count > 0 and then returns and removes the first element.   *)
C17_RingRefinesFifo ==
    /\ [](\A i \in Slots : queues[i] # NULL => RingHolds(i, queues, aseq[i]))
    /\ [][\A i \in Slots :
             (queues[i] # NULL /\ queues[i].ticket = last'.qno)
             => /\ last'.op = "put"
                    => IF queues[i].count < MAXELT
                       THEN /\ ~last'.fail
                            /\ Len(aseq'[i]) = Len(aseq[i]) + 1
                            /\ SubSeq(aseq'[i], 1, Len(aseq[i])) = aseq[i]
                            /\ queues'[i].head = queues[i].head
                       ELSE last'.fail /\ last'.ret = QE_TOOFULL /\ aseq' = aseq
                /\ last'.op = "take"
                    => IF queues[i].count > 0
                       THEN /\ ~last'.fail
                            /\ last'.ret = Head(aseq[i])
                            /\ aseq'[i] = Tail(aseq[i])
                            /\ queues'[i].head = (queues[i].head + 1) % MAXELT
                       ELSE last'.fail /\ last'.ret = QE_EMPTY /\ aseq' = aseq]_vars

\* a take_off_queue has just moved head from the last cell back to cell 0, and
\* the queue still holds an element, put after the tail had wrapped
C17_Witness ==
    /\ last.op = "take" /\ ~last.fail
    /\ \E i \in Slots :
          /\ queues[i] # NULL /\ queues[i].ticket = last.qno
          /\ queues[i].head = 0 /\ queues[i].count > 0
          /\ \A c \in Cells : queues[i].written[c]

(* C18. Index round trip: for every slot index i the ticket that qtktref    *)
(* makes for i decodes to i, in every state the ticket stored in occupied   *)
(* slot i decodes to i, and the ticket that a successful create_queue       *)
(* returns is accepted by readref right after the call and resolves to the  *)
(* slot that the call filled.                                               *)
C18_IndexRoundTrip ==
    /\ [](\A i \in Slots :
             /\ LET r == qtktref(ToU32(i), noncectr)
                IN  ~QE_ISERROR(ToI32(r.ret)) => TicketIndex(r.ret) = ToU32(i)
             /\ queues[i] # NULL => TicketIndex(queues[i].ticket) = ToU32(i))
    /\ [][\A i \in Slots :
             (last'.op = "create" /\ ~last'.fail /\ LowestEmpty(i, queues))
             => /\ readref(ToU32(last'.ret), queues').ret = i
                /\ queues'[i] # NULL
                /\ queues'[i].ticket = ToU32(last'.ret)]_vars

\* a create_queue has just filled the last slot of the table, and readref
\* resolves the ticket returned to that slot
C18_Witness ==
    /\ last.op = "create" /\ ~last.fail
    /\ readref(ToU32(last.ret), queues).ret = MAXQ - 1
    /\ queues[MAXQ - 1].ticket = ToU32(last.ret)

\* the contents of occupied slot i of table Q in FIFO order: count elements,
\* from head on modulo MAXELT
Contents(i, Q) ==
    [k \in 1 .. Q[i].count |-> Q[i].que[(Q[i].head + k - 1) % MAXELT]]

(* C19. list_queue with a valid ticket prints exactly count elements, the   *)
(* contents of the queue in FIFO order from head on, for every count from   *)
(* 0 (nothing printed) to MAXELT (all MAXELT cells printed).                *)
C19_ListEmitsContents ==
    [][\A i \in Slots :
          (/\ last'.op = "list" /\ ~last'.fail
           /\ queues[i] # NULL /\ queues[i].ticket = last'.qno)
          => out' = Contents(i, queues)]_vars

(* C20. qtktref rejects indices out of range: for every index argument not  *)
(* in [0, MAXQ) it returns QE_INTINCON and leaves noncectr as it was, so    *)
(* that it returns a ticket only for indices in [0, MAXQ).                  *)
C20_IndexRangeCheck ==
    [][(last'.op = "qtktref" /\ U32Ge(last'.qno, ToU32(MAXQ)))
          => (last'.ret = QE_INTINCON /\ noncectr' = noncectr)]_vars

====
